---- MODULE Spec2Model ----
(***************************************************************************)
(* Kuhn's augmenting-path matching over random bipartite graphs            *)
(* (src/src/main.rs).  Node indices are 0-based as in the source; a        *)
(* neighbour list is a sequence, a node collection a function from index   *)
(* to neighbour list.                                                      *)
(***************************************************************************)
EXTENDS Integers, Sequences, FiniteSets

\* Largest number of left nodes, right nodes and adjacency-matrix cells l*r.
MaxL == 3
MaxR == 3
MaxCells == 9
\* Largest index space l*r whose samples are enumerated in every order; over a
\* larger one only the ascending and the descending draw are enumerated.
MaxArranged == 6
\* How far num_edges may exceed l*r.
Excess == 1

\* Option::None of a matched_right entry; Some(v) is the index v itself.
None == -1

VARIABLES
    l, r, num_edges,      \* arguments of BipartiteGraph::random
    edges_codes,          \* the sample drawn by random, until the matcher is called
    pc,                   \* position of the trial: new, panicked, built, outer, search, done
    left_nodes,           \* left index -> neighbour list (right indices)
    right_nodes,          \* right index -> neighbour list (left indices)
    randomized,           \* the const generic R of kuhn / try_kuhn
    matched_right,        \* right index -> None or matched left index
    used_left,            \* left index -> visited in the current outer attempt
    v,                    \* loop variable of kuhn
    stack,                \* active try_kuhn frames, innermost last
    ret,                  \* value returned by the try_kuhn call that just ended
    rng,                  \* number of draws made on the random source
    err,                  \* panic raised inside kuhn, or "none"
    run,                  \* 1 for the first kuhn call on the graph, 2 for a repeat
    first,                \* matching returned by the first call
    at_call,              \* neighbour lists and random source when kuhn was called
    entered,              \* left nodes that passed the visited check in this call
    visits,               \* per left node, passes of the visited check in this attempt
    before,               \* matched_right when the current outer attempt began
    attempts              \* completed outer attempts: <<node, result>>

vars == <<l, r, num_edges, edges_codes, pc, left_nodes, right_nodes, randomized, matched_right,
          used_left, v, stack, ret, rng, err, run, first, at_call, entered, visits,
          before, attempts>>

kuhnVars == <<randomized, matched_right, used_left, v, stack, ret, err, run, first,
              at_call, entered, visits, before, attempts>>

----------------------------------------------------------------------------
\* Pure helpers

Range(s) == {s[k] : k \in 1..Len(s)}

\* All orderings of k distinct elements of S.
RECURSIVE Arrangements(_, _)
Arrangements(S, k) ==
    IF k = 0 THEN {<<>>}
    ELSE UNION {{<<x>> \o s : s \in Arrangements(S \ {x}, k - 1)} : x \in S}

\* All orderings of the elements of sequence s (outcomes of a shuffle).
ShuffleOutcomes(s) ==
    {[k \in 1..Len(s) |-> s[p[k]]] : p \in Arrangements(1..Len(s), Len(s))}

\* Insert x into the ascending sequence s, after any equal elements.
RECURSIVE Insert(_, _)
Insert(s, x) ==
    IF s = <<>> THEN <<x>>
    ELSE IF x < Head(s) THEN <<x>> \o s
    ELSE <<Head(s)>> \o Insert(Tail(s), x)

\* A build that forgets to sort.
Unsorted(s) == s

RECURSIVE SortList(_)
SortList(s) == IF s = <<>> THEN <<>> ELSE Insert(SortList(SubSeq(s, 1, Len(s) - 1)), s[Len(s)])

Reverse(s) == [k \in 1..Len(s) |-> s[Len(s) + 1 - k]]

\* The elements of the set of numbers S in ascending order.
RECURSIVE Ascending(_)
Ascending(S) ==
    IF S = {} THEN <<>>
    ELSE LET x == CHOOSE y \in S : \A z \in S : y <= z IN <<x>> \o Ascending(S \ {x})

\* Node collections of n nodes with empty neighbour lists.
EmptyNodes(n) == [i \in 0..(n - 1) |-> <<>>]

\* The loop over edges_codes: decode each code and push it at both endpoints.
RECURSIVE PushEdges(_, _, _, _)
PushEdges(codes, rr, left, right) ==
    IF codes = <<>> THEN [left |-> left, right |-> right]
    ELSE LET code == Head(codes)
             i == code \div rr
             j == code % rr
         IN PushEdges(Tail(codes), rr,
                      [left EXCEPT ![i] = Append(@, j)],
                      [right EXCEPT ![j] = Append(@, i)])

SortAll(nodes) == [i \in DOMAIN nodes |-> SortList(nodes[i])]

\* A sampler that clamps an oversized request instead of panicking.
SampleClamped(length, amount) ==
    Arrangements(0..(length - 1), IF amount > length THEN length ELSE amount)

\* rand::seq::index::sample(rng, length, amount): the possible results, each a
\* sequence of amount distinct indices below length; it panics when
\* amount > length, which is the empty set of results here.
SampleOutcomes(length, amount) ==
    IF amount > length THEN {}
    ELSE IF length <= MaxArranged THEN Arrangements(0..(length - 1), amount)
    ELSE UNION {{Ascending(S), Reverse(Ascending(S))} :
                   S \in {T \in SUBSET (0..(length - 1)) : Cardinality(T) = amount}}

----------------------------------------------------------------------------
Init ==
    /\ l \in 0..MaxL
    /\ r \in 0..MaxR
    /\ l * r <= MaxCells
    /\ num_edges \in 0..(l * r + Excess)
    /\ edges_codes = <<>>
    /\ pc = "new"
    /\ left_nodes = <<>>
    /\ right_nodes = <<>>
    /\ randomized = FALSE
    /\ matched_right = <<>>
    /\ used_left = <<>>
    /\ v = 0
    /\ stack = <<>>
    /\ ret = "none"
    /\ rng = 0
    /\ err = "none"
    /\ run = 1
    /\ first = <<>>
    /\ at_call = [left |-> <<>>, right |-> <<>>, rng |-> 0]
    /\ entered = {}
    /\ visits = <<>>
    /\ before = <<>>
    /\ attempts = <<>>

\* BipartiteGraph::random when sample panics: the nodes exist with empty lists,
\* the edge loop is never reached and no graph is returned.
RandomPanics ==
    /\ pc = "new"
    /\ SampleOutcomes(l * r, num_edges) = {}
    /\ left_nodes' = EmptyNodes(l)
    /\ right_nodes' = EmptyNodes(r)
    /\ pc' = "panicked"
    /\ UNCHANGED <<l, r, num_edges, edges_codes, rng>>
    /\ UNCHANGED kuhnVars

\* BipartiteGraph::random: create the nodes, sample, push every edge, sort.
Random ==
    /\ pc = "new"
    /\ \E codes \in SampleOutcomes(l * r, num_edges) :
          LET g == PushEdges(codes, r, EmptyNodes(l), EmptyNodes(r))
          IN /\ edges_codes' = codes
             /\ left_nodes' = SortAll(g.left)
             /\ right_nodes' = SortAll(g.right)
    /\ rng' = rng + 1
    /\ pc' = "built"
    /\ UNCHANGED <<l, r, num_edges>>
    /\ UNCHANGED kuhnVars

----------------------------------------------------------------------------
\* kuhn and try_kuhn.  A frame is one active try_kuhn invocation: its argument
\* v, its position (entry: before the visited check; loop: at the head of the
\* neighbour loop; wait: inside the recursive call) and the 1-based position i
\* of the neighbour `to` in v's list.  A frame at loop or wait holds the shared
\* borrow of left_nodes[v].neighbours.

Frame(fv) == [v |-> fv, at |-> "entry", i |-> 0]

Top == stack[Len(stack)]
Pop == SubSeq(stack, 1, Len(stack) - 1)
SetTop(f) == [stack EXCEPT ![Len(stack)] = f]

\* The frames that hold left node fv's neighbour list borrowed.
Borrowers(fv) == {k \in 1..Len(stack) : stack[k].v = fv /\ stack[k].at \in {"loop", "wait"}}

\* A visited check that never fires.
NeverVisited(fv) == FALSE

\* used_left[v] of the visited check.
Visited(fv) == used_left[fv]

\* A visited marker allocated once, outside the loop, and never cleared.
StaleUsed ==
    IF DOMAIN used_left = DOMAIN left_nodes THEN used_left
    ELSE [i \in DOMAIN left_nodes |-> FALSE]

\* vec![false; left_nodes.len()], made anew in every iteration of kuhn's loop.
FreshUsed == [i \in DOMAIN left_nodes |-> FALSE]

\* A loop that steps over every other left node.
SkipLeft(x) == x + 2

\* The loop variable after v.
NextLeft(x) == x + 1

\* A matcher that shuffles whatever R is.
ShufflingAlways == TRUE

\* `if R`: whether try_kuhn shuffles the list it is about to scan.
Shuffling == randomized

\* A test that takes every neighbour for free.
AlwaysFree(to) == TRUE

\* matched_right[to].is_none()
IsNone(to) == matched_right[to] = None

\* matched_right[to] = Some(v), reached because `to` was free.
TakeFree(to, fv) == [matched_right EXCEPT ![to] = fv]

\* A success path that returns true without recording the new match.
RematchDropped(to, fv) == matched_right

\* matched_right[to] = Some(v), reached because the recursive call succeeded.
Rematch(to, fv) == [matched_right EXCEPT ![to] = fv]

\* kuhn, up to the loop: a fresh all-None matching.
KuhnBegin ==
    /\ pc = "built"
    /\ run = 1
    /\ \E R \in BOOLEAN : randomized' = R
    /\ matched_right' = [j \in DOMAIN right_nodes |-> None]
    /\ v' = 0
    /\ pc' = "outer"
    /\ at_call' = [left |-> left_nodes, right |-> right_nodes, rng |-> rng]
    /\ entered' = {}
    /\ attempts' = <<>>
    /\ edges_codes' = <<>>
    /\ UNCHANGED <<l, r, num_edges, left_nodes, right_nodes, used_left, stack, ret, rng,
                   err, run, first, visits, before>>

\* One iteration of kuhn's loop begins: clear used_left and call try_kuhn(v).
OuterAttempt ==
    /\ pc = "outer"
    /\ v < Cardinality(DOMAIN left_nodes)
    /\ used_left' = FreshUsed
    /\ stack' = <<Frame(v)>>
    /\ ret' = "none"
    /\ pc' = "search"
    /\ visits' = [i \in DOMAIN left_nodes |-> 0]
    /\ before' = matched_right
    /\ UNCHANGED <<l, r, num_edges, edges_codes, left_nodes, right_nodes, randomized, matched_right, v,
                   rng, err, run, first, at_call, entered, attempts>>

\* The top-level try_kuhn has returned: its result is dropped, next v.
OuterNext ==
    /\ pc = "search"
    /\ err = "none"
    /\ stack = <<>>
    /\ attempts' = Append(attempts, <<v, ret>>)
    /\ v' = NextLeft(v)
    /\ ret' = "none"
    /\ pc' = "outer"
    /\ UNCHANGED <<l, r, num_edges, edges_codes, left_nodes, right_nodes, randomized, matched_right,
                   used_left, stack, rng, err, run, first, at_call, entered, visits, before>>

\* kuhn returns matched_right.
KuhnReturn ==
    /\ pc = "outer"
    /\ v >= Cardinality(DOMAIN left_nodes)
    /\ pc' = "done"
    /\ UNCHANGED <<l, r, num_edges, edges_codes, left_nodes, right_nodes, rng>>
    /\ UNCHANGED kuhnVars

\* try_kuhn(v) with used_left[v] set: return false at once.
TryVisited ==
    /\ pc = "search" /\ err = "none" /\ stack # <<>>
    /\ Top.at = "entry"
    /\ Top.v \in DOMAIN used_left
    /\ Visited(Top.v)
    /\ stack' = Pop
    /\ ret' = "false"
    /\ UNCHANGED <<l, r, num_edges, edges_codes, pc, left_nodes, right_nodes, randomized, matched_right,
                   used_left, v, rng, err, run, first, at_call, entered, visits, before,
                   attempts>>

\* try_kuhn(v) with used_left[v] clear: mark v, shuffle its list when R, and
\* borrow the list for the loop.  Indexing used_left or left_nodes out of range
\* panics, and so does borrow_mut while a frame holds the list borrowed.
TryEnter ==
    /\ pc = "search" /\ err = "none" /\ stack # <<>>
    /\ Top.at = "entry"
    /\ IF Top.v \notin DOMAIN used_left \/ Top.v \notin DOMAIN left_nodes
       THEN /\ err' = "index"
            /\ UNCHANGED <<left_nodes, used_left, stack, rng, entered, visits>>
       ELSE /\ ~Visited(Top.v)
            /\ used_left' = [used_left EXCEPT ![Top.v] = TRUE]
            /\ entered' = entered \cup {Top.v}
            /\ visits' = [visits EXCEPT ![Top.v] = @ + 1]
            /\ IF Shuffling
               THEN IF Borrowers(Top.v) # {}
                    THEN /\ err' = "borrow"
                         /\ UNCHANGED <<left_nodes, stack, rng>>
                    ELSE /\ \E s \in ShuffleOutcomes(left_nodes[Top.v]) :
                              left_nodes' = [left_nodes EXCEPT ![Top.v] = s]
                         /\ rng' = rng + 1
                         /\ stack' = SetTop([Top EXCEPT !.at = "loop", !.i = 1])
                         /\ err' = "none"
               ELSE /\ stack' = SetTop([Top EXCEPT !.at = "loop", !.i = 1])
                    /\ UNCHANGED <<left_nodes, rng, err>>
    /\ UNCHANGED <<l, r, num_edges, edges_codes, pc, right_nodes, randomized, matched_right, v, ret,
                   run, first, at_call, before, attempts>>

\* The neighbour loop is exhausted: return false.
TryExhausted ==
    /\ pc = "search" /\ err = "none" /\ stack # <<>>
    /\ Top.at = "loop"
    /\ Top.i > Len(left_nodes[Top.v])
    /\ stack' = Pop
    /\ ret' = "false"
    /\ UNCHANGED <<l, r, num_edges, edges_codes, pc, left_nodes, right_nodes, randomized, matched_right,
                   used_left, v, rng, err, run, first, at_call, entered, visits, before,
                   attempts>>

\* Next neighbour `to`: if matched_right[to] is None take it and return true,
\* otherwise call try_kuhn on the left node it is matched to (unwrap panics
\* on None).
TryNeighbour ==
    /\ pc = "search" /\ err = "none" /\ stack # <<>>
    /\ Top.at = "loop"
    /\ Top.i <= Len(left_nodes[Top.v])
    /\ LET to == left_nodes[Top.v][Top.i]
       IN IF to \notin DOMAIN matched_right
          THEN /\ err' = "index"
               /\ UNCHANGED <<matched_right, stack, ret>>
          ELSE IF IsNone(to)
          THEN /\ matched_right' = TakeFree(to, Top.v)
               /\ stack' = Pop
               /\ ret' = "true"
               /\ err' = "none"
          ELSE IF matched_right[to] = None
          THEN /\ err' = "unwrap"
               /\ UNCHANGED <<matched_right, stack, ret>>
          ELSE /\ stack' = Append(SetTop([Top EXCEPT !.at = "wait"]), Frame(matched_right[to]))
               /\ ret' = "none"
               /\ UNCHANGED <<matched_right, err>>
    /\ UNCHANGED <<l, r, num_edges, edges_codes, pc, left_nodes, right_nodes, randomized, used_left, v,
                   rng, run, first, at_call, entered, visits, before, attempts>>

\* The recursive call returned true: rematch `to` to v and return true.
TryRematch ==
    /\ pc = "search" /\ err = "none" /\ stack # <<>>
    /\ Top.at = "wait"
    /\ ret = "true"
    /\ matched_right' = Rematch(left_nodes[Top.v][Top.i], Top.v)
    /\ stack' = Pop
    /\ UNCHANGED <<l, r, num_edges, edges_codes, pc, left_nodes, right_nodes, randomized, used_left, v,
                   ret, rng, err, run, first, at_call, entered, visits, before, attempts>>

\* The recursive call returned false: go on with the next neighbour.
TryContinue ==
    /\ pc = "search" /\ err = "none" /\ stack # <<>>
    /\ Top.at = "wait"
    /\ ret = "false"
    /\ stack' = SetTop([Top EXCEPT !.at = "loop", !.i = @ + 1])
    /\ ret' = "none"
    /\ UNCHANGED <<l, r, num_edges, edges_codes, pc, left_nodes, right_nodes, randomized, matched_right,
                   used_left, v, rng, err, run, first, at_call, entered, visits, before,
                   attempts>>

\* A caller runs kuhn::<false> once more on the same graph, passing a random
\* source in another state.
Rerun ==
    /\ pc = "done"
    /\ run = 1
    /\ ~randomized
    /\ first' = matched_right
    /\ run' = 2
    /\ rng' = rng + 1
    /\ matched_right' = [j \in DOMAIN right_nodes |-> None]
    /\ v' = 0
    /\ pc' = "outer"
    /\ at_call' = [left |-> left_nodes, right |-> right_nodes, rng |-> rng + 1]
    /\ entered' = {}
    /\ attempts' = <<>>
    /\ UNCHANGED <<l, r, num_edges, edges_codes, left_nodes, right_nodes, randomized, used_left, stack,
                   ret, err, visits, before>>

Next ==
    \/ Random
    \/ RandomPanics
    \/ KuhnBegin
    \/ OuterAttempt
    \/ OuterNext
    \/ KuhnReturn
    \/ TryVisited
    \/ TryEnter
    \/ TryExhausted
    \/ TryNeighbour
    \/ TryRematch
    \/ TryContinue
    \/ Rerun

Spec == Init /\ [][Next]_vars

\* A step of a kuhn call under way.
KuhnStep ==
    \/ OuterAttempt
    \/ OuterNext
    \/ KuhnReturn
    \/ TryVisited
    \/ TryEnter
    \/ TryExhausted
    \/ TryNeighbour
    \/ TryRematch
    \/ TryContinue

\* The matcher is sequential code with no suspension point: once kuhn is
\* called, its next step is taken.
FairSpec == Spec /\ WF_vars(KuhnStep)
----------------------------------------------------------------------------
\* Vocabulary of the properties

\* The trial is inside a kuhn call or has returned from one.
InKuhn == pc \in {"outer", "search", "done"}

\* No outer attempt is under way.
BetweenAttempts == pc \in {"outer", "done"}

\* The top-level try_kuhn of the current outer attempt has just returned.
AttemptDone == pc = "search" /\ stack = <<>> /\ err = "none"

MatchedRights(m) == {j \in DOMAIN m : m[j] # None}
MatchedLefts(m) == {m[j] : j \in MatchedRights(m)}
Size(m) == Cardinality(MatchedRights(m))

StrictlyAscending(s) == \A k \in 1..(Len(s) - 1) : s[k] < s[k + 1]

\* s and t hold the same elements, each once.
SameElements(s, t) ==
    /\ Len(s) = Len(t)
    /\ Range(s) = Range(t)
    /\ Cardinality(Range(s)) = Len(s)

SetMax(S) == CHOOSE x \in S : \A y \in S : y <= x

\* Size of a largest matching of the left nodes i, i+1, ... into the right
\* nodes outside `taken`, by exhaustive search.
RECURSIVE LargestMatching(_, _, _)
LargestMatching(left, i, taken) ==
    IF i \notin DOMAIN left THEN 0
    ELSE SetMax({LargestMatching(left, i + 1, taken)}
                \cup {1 + LargestMatching(left, i + 1, taken \cup {j}) :
                         j \in Range(left[i]) \ taken})

\* C1: the vector kuhn returns is a maximum matching of the graph, in both
\* modes and under every shuffle outcome; a complete bipartite graph with
\* L <= R gets L matched entries.
C1_MaximumMatching ==
    pc = "done" =>
        /\ Size(matched_right) = LargestMatching(at_call.left, 0, {})
        /\ (num_edges = l * r /\ l <= r) => Size(matched_right) = l

\* A randomized call returned a perfect matching of a sparse 3 x 3 graph.
C1_Witness ==
    /\ pc = "done" /\ randomized
    /\ l = 3 /\ r = 3 /\ num_edges = 5
    /\ Size(matched_right) = 3

\* C2: after every completed outer attempt and on return, matched_right is a
\* valid matching: every Some(v) is a left index below L joined to its right
\* node by a recorded edge, and no left index occurs twice.
C2_ValidMatching ==
    BetweenAttempts =>
        /\ \A j \in MatchedRights(matched_right) :
              /\ matched_right[j] \in 0..(l - 1)
              /\ matched_right[j] \in Range(right_nodes[j])
              /\ j \in Range(left_nodes[matched_right[j]])
        /\ \A j1, j2 \in MatchedRights(matched_right) :
              matched_right[j1] = matched_right[j2] => j1 = j2

\* An attempt has ended in which a right node changed hands.
C2_Witness ==
    /\ pc = "outer" /\ randomized /\ v = 2
    /\ \E j \in DOMAIN before : before[j] # None /\ matched_right[j] # before[j]

\* C3: random returns l left and r right nodes whose lists record exactly the
\* sampled codes: left i lists, strictly ascending, the j with i*r + j drawn,
\* right j the i with i*r + j drawn; num_edges distinct edges in all.
C3_GraphRecordsSample ==
    (pc = "built" /\ run = 1) =>
        /\ DOMAIN left_nodes = 0..(l - 1)
        /\ DOMAIN right_nodes = 0..(r - 1)
        /\ Len(edges_codes) = num_edges
        /\ \A i \in 0..(l - 1) :
              /\ StrictlyAscending(left_nodes[i])
              /\ Range(left_nodes[i]) = {j \in 0..(r - 1) : (i * r + j) \in Range(edges_codes)}
        /\ \A j \in 0..(r - 1) :
              /\ StrictlyAscending(right_nodes[j])
              /\ Range(right_nodes[j]) = {i \in 0..(l - 1) : (i * r + j) \in Range(edges_codes)}
        /\ Cardinality({e \in (0..(l - 1)) \X (0..(r - 1)) :
                           e[2] \in Range(left_nodes[e[1]])}) = num_edges

\* A graph built from a sample that was not drawn in ascending order.
C3_Witness ==
    /\ pc = "built" /\ l = 3 /\ r = 2 /\ num_edges = 4
    /\ edges_codes[1] > edges_codes[2]
    /\ \E i \in DOMAIN left_nodes : Len(left_nodes[i]) = 2

\* C4: on a graph built by random, kuhn raises no panic in either mode: no
\* index out of range, no unwrap of None, no borrow_mut of a list that an
\* active frame holds borrowed.
C4_NoPanic ==
    /\ err = "none"
    /\ \A k \in 1..Len(stack) : stack[k].v \in 0..(l - 1)

\* In randomized mode try_kuhn is called on a left node whose list an active
\* frame is scanning.
C4_Witness ==
    /\ pc = "search" /\ randomized /\ stack # <<>>
    /\ Top.at = "entry"
    /\ Borrowers(Top.v) # {}

\* C5: kuhn changes nothing in the graph but the order of left lists in
\* randomized mode: right lists never change; with R false no left list
\* changes; with R true each left list stays a permutation of what it was
\* and only left nodes entered unvisited can be reordered.
C5_GraphFrame ==
    InKuhn =>
        /\ right_nodes = at_call.right
        /\ DOMAIN left_nodes = DOMAIN at_call.left
        /\ ~randomized => left_nodes = at_call.left
        /\ \A i \in DOMAIN left_nodes :
              /\ SameElements(left_nodes[i], at_call.left[i])
              /\ left_nodes[i] # at_call.left[i] => i \in entered

\* A randomized call returned having reordered one entered list and left
\* another entered list in its order.
C5_Witness ==
    /\ pc = "done" /\ randomized
    /\ \E i, k \in entered :
          /\ left_nodes[i] # at_call.left[i]
          /\ Len(left_nodes[k]) > 1 /\ left_nodes[k] = at_call.left[k]

\* C6: random with num_edges > l*r ends in a panic: no graph is returned and
\* no edge has been appended to any list.
C6_OversizedSampleRejected ==
    /\ num_edges > l * r => pc \in {"new", "panicked"}
    /\ pc = "panicked" =>
          /\ num_edges > l * r
          /\ \A i \in DOMAIN left_nodes : left_nodes[i] = <<>>
          /\ \A j \in DOMAIN right_nodes : right_nodes[j] = <<>>
          /\ edges_codes = <<>>

\* random panicked on a 2 x 3 request for seven edges.
C6_Witness == pc = "panicked" /\ l = 2 /\ r = 3 /\ num_edges = 7

\* C7: kuhn::<false> is deterministic: it never draws on the random source
\* nor touches the lists, and a second call on the same graph with the random
\* source in another state returns the same vector, entry by entry.
C7_Deterministic ==
    /\ (InKuhn /\ ~randomized) => (rng = at_call.rng /\ left_nodes = at_call.left)
    /\ (pc = "done" /\ run = 2) => matched_right = first

\* The repeat call returned a perfect matching of a 3 x 3 graph.
C7_Witness ==
    /\ pc = "done" /\ run = 2 /\ at_call.rng = 2
    /\ l = 3 /\ r = 3 /\ Size(matched_right) = 3 /\ num_edges < 9

\* C8: a failed outer attempt leaves matched_right as it was; a successful
\* one adds v to the matched left nodes and exactly one right node to the
\* matched right nodes.  Hence between attempts a left node is matched iff
\* its own attempt succeeded.
C8_AttemptEffect ==
    /\ AttemptDone =>
          IF ret = "true"
          THEN /\ v \notin MatchedLefts(before)
               /\ MatchedLefts(matched_right) = MatchedLefts(before) \cup {v}
               /\ MatchedRights(before) \subseteq MatchedRights(matched_right)
               /\ Cardinality(MatchedRights(matched_right) \ MatchedRights(before)) = 1
               /\ Size(matched_right) = Size(before) + 1
          ELSE /\ ret = "false"
               /\ matched_right = before
    /\ BetweenAttempts =>
          /\ \A k \in 1..Len(attempts) :
                (attempts[k][1] \in MatchedLefts(matched_right)) <=> (attempts[k][2] = "true")
          /\ MatchedLefts(matched_right) \subseteq {attempts[k][1] : k \in 1..Len(attempts)}

\* A successful attempt has just ended in which a right node changed hands.
C8_Witness ==
    /\ AttemptDone /\ ret = "true"
    /\ \E j \in DOMAIN before : before[j] # None /\ matched_right[j] # before[j]

\* kuhn has just been called.
KuhnCalled == pc = "outer" /\ v = 0

C9_Counting ==
    /\ InKuhn =>
          /\ Len(attempts) <= l
          /\ \A k \in 1..Len(attempts) : attempts[k][1] = k - 1
          /\ pc = "done" => Len(attempts) = l
          /\ pc # "done" => v = Len(attempts)
    /\ pc = "search" =>
          /\ \A i \in DOMAIN visits : visits[i] <= 1
          /\ (Len(stack) = 1 /\ Top.at = "entry") =>
                (Top.v = v /\ \A i \in DOMAIN used_left : ~used_left[i])

\* C9: every kuhn call terminates: exactly L outer attempts, for the left
\* nodes 0..L-1 in order, each starting from a cleared visited marker; within
\* an attempt a left node passes the visited check at most once; the matching
\* is eventually returned.
C9_Terminates == []C9_Counting /\ (KuhnCalled ~> pc = "done")

\* A randomized call on three left nodes returned after entering all of them.
C9_Witness ==
    /\ pc = "done" /\ randomized
    /\ l = 3 /\ Len(attempts) = 3 /\ entered = {0, 1, 2}
    /\ Size(matched_right) = 2

\* C10 as stated: at most L try_kuhn invocations are active at once.
C10_DepthAtMostL == Len(stack) <= l

\* C10, amended: at most L + 1 try_kuhn invocations are active at once, and
\* at most L of them have passed the visited check.
C10_DepthAtMostLPlusOne ==
    /\ Len(stack) <= l + 1
    /\ Cardinality({k \in 1..Len(stack) : stack[k].at # "entry"}) <= l

\* Four invocations are active on a graph with three left nodes.
C10_Witness == l = 3 /\ Len(stack) = 4
====
